---- MODULE Spec2Model ----
(***************************************************************************)
(* A model of the Tekton bundler command (cmd/bundler/main.go), of the     *)
(* constructImage of its earlier version (src/unnamed/part_004) and of the *)
(* OCI signature verifier (package oci: lookupVerifier and                 *)
(* cosignVerifier.Verify).                                                 *)
(*                                                                         *)
(* Text is modelled at the granularity the code looks at it.  A file is a  *)
(* sequence of tokens: the separator "---\n", or the whole text standing   *)
(* between two separators (one YAML document, well formed or not).  Two    *)
(* document tokens are never adjacent, because the text between two        *)
(* separators is one token by definition; an empty text is no token.       *)
(***************************************************************************)
EXTENDS Integers, Sequences, FiniteSets, TLC

(* ---------------------------- bounds ----------------------------------- *)
MaxFiles == 2
MaxFileLen == 3
MaxStaged == 2
MaxKeyLen == 3
Calls == 2
MaxOver == 2

(* ------------------------ program constants ---------------------------- *)
maxResources == 10

SupportedAPIVersion == "tekton.dev/v1beta1"

(* ---------------------------- input text ------------------------------- *)
APIVersions == {SupportedAPIVersion, "tekton.dev/v1"}
Kinds == {"Task", "Pipeline", "ClusterTask"}
Names == {"a", "b", ""}
Bodies == {"x", "y"}

Sep == [tok |-> "sep", apiVersion |-> "", kind |-> "", name |-> "", body |-> ""]

Malformed == [tok |-> "malformed", apiVersion |-> "", kind |-> "", name |-> "", body |-> ""]

(* the documents: every way of passing or failing the three envelope       *)
(* checks, two names for the documents that pass, and a second body for    *)
(* one of them (same key, different content)                               *)
DocTokens ==
  {d \in [tok : {"doc"}, apiVersion : APIVersions, kind : Kinds, name : Names, body : Bodies] :
     LET passes == /\ d.apiVersion = SupportedAPIVersion
                   /\ d.kind \in {"Task", "Pipeline"}
                   /\ d.name # ""
     IN  /\ d.body = "y" => passes /\ d.kind = "Task" /\ d.name = "a"
         /\ d.name = "b" => passes
         /\ d.apiVersion # SupportedAPIVersion => d.kind # "Pipeline"}
    \cup {Malformed}

Tokens == DocTokens \cup {Sep}

RECURSIVE TextsOfLen(_)
TextsOfLen(n) ==
  IF n = 0 THEN {<<>>}
  ELSE {Append(s, t) : s \in TextsOfLen(n - 1), t \in {Sep}}
       \cup {Append(s, t) : s \in {u \in TextsOfLen(n - 1) : n = 1 \/ u[n - 1] = Sep},
                            t \in DocTokens}

FileContents == UNION {TextsOfLen(n) : n \in 0 .. MaxFileLen}

(* ------------------------------ types ---------------------------------- *)
resourceKey(a, k, n) == [apiVersion |-> a, kind |-> k, name |-> n]

NoKey == resourceKey("", "", "")

resource(key, content) == [key |-> key, content |-> content]

YamlResource(k, a, n) == [Kind |-> k, ApiVersion |-> a, Metadata |-> [Name |-> n]]

(* an error value: the message as the chain of its wrapped parts, and the  *)
(* filename, index or key the message is formatted with                    *)
NilError == [msg |-> <<>>, file |-> 0, index |-> 0, key |-> NoKey]

Errorf(msg, file, index, key) == [msg |-> <<msg>>, file |-> file, index |-> index, key |-> key]

(* fmt.Errorf("<prefix>: %v", e)                                           *)
Wrap(prefix, e) == [e EXCEPT !.msg = <<prefix>> \o @]

(* the error values of package oci: the message and the reference or name  *)
(* it is formatted with                                                    *)
NoErr == [msg |-> <<>>, ref |-> ""]

VErrorf(msg, ref) == [msg |-> <<msg>>, ref |-> ref]

VWrap(prefix, e) == [e EXCEPT !.msg = <<prefix>> \o @]

(* the errors the signature backend can come back with                     *)
BackendErrors == {VErrorf("no matching signatures", ""), VErrorf("fetching signatures", "")}

(* what cosign.VerifyImageSignatures can come back with                    *)
BackendOutcomes ==
  [called : {TRUE}, verified : {FALSE}, err : BackendErrors]
    \cup [called : {TRUE}, verified : BOOLEAN, err : {NoErr}]

NotCalled == [called |-> FALSE, verified |-> FALSE, err |-> NoErr]

(* strings.Split(contents, "---\n"): the texts between the separators, the *)
(* empty ones included; always at least one part.                          *)
RECURSIVE Split(_)
Split(contents) ==
  IF contents = <<>> THEN << <<>> >>
  ELSE LET rest == Split(Tail(contents))
       IN  IF Head(contents) = Sep
           THEN << <<>> >> \o rest
           ELSE << <<Head(contents)>> \o Head(rest) >> \o Tail(rest)

(* a yaml.Unmarshal that takes an empty text for an error                  *)
UnmarshalErr_rejectsEmpty(s) == s = <<>> \/ \E i \in 1 .. Len(s) : s[i].tok = "malformed"

(* yaml.Unmarshal into a YamlResource: an empty text leaves the zero value *)
UnmarshalErr(s) == \E i \in 1 .. Len(s) : s[i].tok = "malformed"

Unmarshal(s) ==
  IF s = <<>> THEN YamlResource("", "", "")
  ELSE YamlResource(s[Len(s)].kind, s[Len(s)].apiVersion, s[Len(s)].name)

(* parseResource with the switch on yr.Kind left out                       *)
parseResource_anyKind(s, filename, index) ==
  LET yr == Unmarshal(s)
      none == resource(NoKey, <<>>)
  IN  IF UnmarshalErr(s)
      THEN [r |-> none, err |-> Errorf("unmarshalling yaml", filename, index, NoKey)]
      ELSE IF yr.ApiVersion # "tekton.dev/v1beta1"
      THEN [r |-> none,
            err |-> Errorf("only tekton.dev/v1beta1 supported by this tool", filename, index, NoKey)]
      ELSE IF yr.Metadata.Name = ""
      THEN [r |-> none, err |-> Errorf("name is required", filename, index, NoKey)]
      ELSE [r |-> resource(resourceKey(yr.ApiVersion, yr.Kind, yr.Metadata.Name), s),
            err |-> NilError]

(* parseResource with the name looked at before the kind                   *)
parseResource_nameFirst(s, filename, index) ==
  LET yr == Unmarshal(s)
      none == resource(NoKey, <<>>)
  IN  IF UnmarshalErr(s)
      THEN [r |-> none, err |-> Errorf("unmarshalling yaml", filename, index, NoKey)]
      ELSE IF yr.ApiVersion # "tekton.dev/v1beta1"
      THEN [r |-> none,
            err |-> Errorf("only tekton.dev/v1beta1 supported by this tool", filename, index, NoKey)]
      ELSE IF yr.Metadata.Name = ""
      THEN [r |-> none, err |-> Errorf("name is required", filename, index, NoKey)]
      ELSE IF yr.Kind \notin {"Task", "Pipeline"}
      THEN [r |-> none, err |-> Errorf("unsupported Kind", filename, index, NoKey)]
      ELSE [r |-> resource(resourceKey(yr.ApiVersion, yr.Kind, yr.Metadata.Name), s),
            err |-> NilError]

(* parseResource: [r, err]; r is meaningful only when err is NilError.     *)
parseResource(s, filename, index) ==
  LET yr == Unmarshal(s)
      none == resource(NoKey, <<>>)
  IN  IF UnmarshalErr(s)
      THEN [r |-> none, err |-> Errorf("unmarshalling yaml", filename, index, NoKey)]
      ELSE IF yr.ApiVersion # "tekton.dev/v1beta1"
      THEN [r |-> none,
            err |-> Errorf("only tekton.dev/v1beta1 supported by this tool", filename, index, NoKey)]
      ELSE IF yr.Kind \notin {"Task", "Pipeline"}
      THEN [r |-> none, err |-> Errorf("unsupported Kind", filename, index, NoKey)]
      ELSE IF yr.Metadata.Name = ""
      THEN [r |-> none, err |-> Errorf("name is required", filename, index, NoKey)]
      ELSE [r |-> resource(resourceKey(yr.ApiVersion, yr.Kind, yr.Metadata.Name), s),
            err |-> NilError]

(* the lookup of parseFiles never finding the key                          *)
found_never(keys, key) == FALSE

(* the lookup `_, found := keys[r.key]` of parseFiles                      *)
found(keys, key) == key \in keys

(* the resource put in front instead of appended                           *)
appendResource_front(resources, r) == <<r>> \o resources

(* `resources = append(resources, r)` of parseFiles                        *)
appendResource(resources, r) == Append(resources, r)


(* ------------------------ image construction --------------------------- *)
(* createTarball with the path of the tar file as the name of the entry    *)
createTarball_fullPath(name, res, index) ==
  [Name |-> name.dir \o name.name, Mode |-> "0600",
   Size |-> Len(res.content), content |-> res.content]

(* createTarball: what is written to the file `name`, the tar.Header (all  *)
(* other fields zero) and the bytes of the resource; `name` is where the   *)
(* file is created and is not part of what is written                      *)
createTarball(name, res, index) ==
  [Name |-> <<"resource-%d.yaml", index>>, Mode |-> "0600",
   Size |-> Len(res.content), content |-> res.content]

(* tarball.LayerFromFile: the layer is made of the bytes of the file       *)
LayerFromFile(file) == file

(* the annotations map with the values of kind and name exchanged          *)
annotationsOf_swapped(res) ==
  [k \in {"dev.tekton.image.apiVersion", "dev.tekton.image.kind", "dev.tekton.image.name"} |->
     CASE k = "dev.tekton.image.apiVersion" -> res.key.apiVersion
       [] k = "dev.tekton.image.kind" -> res.key.name
       [] k = "dev.tekton.image.name" -> res.key.kind]

(* the annotations map built in constructImage                             *)
annotationsOf(res) ==
  [k \in {"dev.tekton.image.apiVersion", "dev.tekton.image.kind", "dev.tekton.image.name"} |->
     CASE k = "dev.tekton.image.apiVersion" -> res.key.apiVersion
       [] k = "dev.tekton.image.kind" -> res.key.kind
       [] k = "dev.tekton.image.name" -> res.key.name]

annotatedLayer(layer, annotations) == [layer |-> layer, annotations |-> annotations]

(* annotatedLayer.Descriptor: the annotations plus what the wrapped layer  *)
(* reports; the digest of a layer is modelled by the bytes it is made of.  *)
Descriptor(al) ==
  [Annotations |-> al.annotations, MediaType |-> "layer", Size |-> al.layer.Size,
   Digest |-> al.layer]

(* mutate.AppendLayers(image, layer)                                       *)
AppendLayers(img, al) == Append(img, [descriptor |-> Descriptor(al), layer |-> al])

emptyImage == <<>>

(* image.Digest(): the hash of the manifest, which lists the descriptors   *)
(* of the layers in order; a hash is modelled by what it is taken of       *)
Digest(img) == [i \in 1 .. Len(img) |-> img[i].descriptor]

(* os.RemoveAll(tempDir): the directory and everything below it            *)
RemoveAll(files, dir) == {f \in files : f.dir # dir}

Times == {"t1", "t2"}

TempDirEntry(t) == [dir |-> <<"tekton-bundler-%d", t>>, name |-> <<>>]

(* ------------------------------ state ---------------------------------- *)
VARIABLES
  pc,        \* position of the run
  help,      \* --help
  imageFlag, \* --image: "", "invalid" or "ok"
  nArgs,     \* len(flag.Args())
  fileIdx,   \* files of parseFiles' outer loop already finished
  parts,     \* parts of the file being parsed
  partIdx,   \* index of the next part (0-based, as in the code)
  resources, \* parseFiles' resources / constructImage's argument
  keys,      \* parseFiles' keys map (its key set)
  err,       \* the error the run ended with
  tooMany,   \* the "Too many resources" line was printed
  fs,        \* staging entries present on disk
  tempDir,   \* constructImage's tempDir (<<>> before it is computed)
  image,     \* the image under construction
  index,     \* constructImage's loop index
  pushes,    \* number of crane.Push calls
  exitCode,  \* -1 while running
  stdout,    \* what the run printed last on standard output
  input,     \* history: the contents of the files read so far
  seen,      \* history: the parts of the files read so far, in order
  trace,     \* history: stages entered and returned from
  built      \* history: what each call of constructImage that returned built

bvars == <<pc, help, imageFlag, nArgs, fileIdx, parts, partIdx, resources, keys, err,
           tooMany, fs, tempDir, image, index, pushes, exitCode, stdout, input, seen, trace,
           built>>

(* the state of the client of package oci                                 *)
VARIABLES
  vpc,         \* position of the client of package oci
  signer,      \* the signer name looked up
  key,         \* the key argument of Verify
  imgRef,      \* the image reference
  verifier,    \* what lookupVerifier returned
  lookupErr,   \* and its error
  sigVerifier, \* cosignOpts.SigVerifier
  handle,      \* the PKCS#11 key handle: "none", "open" or "closed"
  deferred,    \* the calls deferred by Verify
  backend,     \* history: what cosign.VerifyImageSignatures came back with
  result       \* what Verify returned

vvars == <<vpc, signer, key, imgRef, verifier, lookupErr, sigVerifier, handle, deferred,
           backend, result>>

vars == <<bvars, vvars>>

(* os.Exit(code) after printing `out`                                      *)
Exit(code, e, out) ==
  /\ pc' = "exit"
  /\ exitCode' = code
  /\ err' = e
  /\ stdout' = out

(* main going on to publishImage although constructImage failed            *)
onError_continue(stage) == IF stage = "constructImage" THEN "publishImage" ELSE "exit"

(* main's `if err != nil { ...; os.Exit(1) }` after each stage: where the  *)
(* run goes when the stage returned an error                               *)
onError(stage) == "exit"

(* main giving up when there are more than maxResources resources          *)
afterSizeCheck_abort(n) == IF n > maxResources THEN "exit" ELSE "constructImage"

(* main, lines 79-84: where the run goes after the check of the number of  *)
(* resources, which only prints                                            *)
afterSizeCheck(n) == "constructImage"

Fail(stage, e, out) ==
  /\ pc' = onError(stage)
  /\ exitCode' = 1
  /\ err' = e
  /\ stdout' = out

InitBundler ==
  /\ pc = "main"
  /\ help \in BOOLEAN
  /\ imageFlag \in {"", "invalid", "ok"}
  /\ nArgs \in 0 .. MaxFiles
  /\ fileIdx = 0
  /\ parts = <<>>
  /\ partIdx = 0
  /\ resources = <<>>
  /\ keys = {}
  /\ err = NilError
  /\ tooMany = FALSE
  /\ fs = {}
  /\ tempDir = <<>>
  /\ image = emptyImage
  /\ index = 0
  /\ pushes = 0
  /\ exitCode = -1
  /\ stdout = "none"
  /\ input = <<>>
  /\ seen = <<>>
  /\ trace = <<>>
  /\ built = <<>>
  /\ vpc = "idle"
  /\ signer = ""
  /\ key = <<>>
  /\ imgRef = ""
  /\ verifier = "nil"
  /\ lookupErr = NoErr
  /\ sigVerifier = "nil"
  /\ handle = "none"
  /\ deferred = <<>>
  /\ backend = NotCalled
  /\ result = [verified |-> FALSE, err |-> NoErr]

(* main, lines 50-73: the flag checks, up to the call of parseFiles        *)
MainFlags ==
  /\ pc = "main"
  /\ UNCHANGED vvars
  /\ UNCHANGED built
  /\ UNCHANGED <<help, imageFlag, nArgs, fileIdx, parts, partIdx, resources, keys,
                 tooMany, fs, tempDir, image, index, pushes, input, seen>>
  /\ IF help
     THEN Exit(0, NilError, "usage") /\ UNCHANGED trace
     ELSE IF nArgs = 0
     THEN Exit(1, NilError, "Must provide at least one config file.") /\ UNCHANGED trace
     ELSE IF imageFlag = ""
     THEN Exit(1, NilError, "--image is required.") /\ UNCHANGED trace
     ELSE IF imageFlag = "invalid"
     THEN Exit(1, Errorf("--image is invalid", 0, 0, NoKey), "--image is invalid")
          /\ UNCHANGED trace
     ELSE /\ pc' = "readFile"
          /\ trace' = Append(trace, "parseFiles")
          /\ UNCHANGED <<exitCode, err, stdout>>

(* parseFiles, lines 116-122: read the next file and split it              *)
ReadFile ==
  /\ pc = "readFile"
  /\ UNCHANGED vvars
  /\ UNCHANGED built
  /\ UNCHANGED <<help, imageFlag, nArgs, fileIdx, resources, keys, tooMany, fs, tempDir, image,
                 index, pushes>>
  /\ \/ /\ Fail("parseFiles", Errorf("reading", fileIdx + 1, 0, NoKey), "Error reading files")
        /\ trace' = Append(trace, "parseFiles:err")
        /\ UNCHANGED <<parts, partIdx, input, seen>>
     \/ \E contents \in FileContents :
          /\ parts' = Split(contents)
          /\ partIdx' = 0
          /\ input' = Append(input, contents)
          /\ seen' = seen \o Split(contents)
          /\ pc' = "parsePart"
          /\ UNCHANGED <<exitCode, err, stdout, trace>>

(* parseFiles, lines 124-137, and main, lines 74-83: one iteration of the  *)
(* inner loop; after the last part of the last file parseFiles returns and *)
(* main goes on to constructImage.                                         *)
ParsePart ==
  /\ pc = "parsePart"
  /\ UNCHANGED vvars
  /\ UNCHANGED built
  /\ LET part == parts[partIdx + 1]
         p == parseResource(part, fileIdx + 1, partIdx)
     IN  /\ UNCHANGED <<help, imageFlag, nArgs, parts, fs, tempDir, image, index, pushes, input, seen>>
         /\ IF p.err # NilError
            THEN /\ Fail("parseFiles", Wrap("parsing resource", p.err), "Error reading files")
                 /\ trace' = Append(trace, "parseFiles:err")
                 /\ UNCHANGED <<fileIdx, partIdx, resources, keys, tooMany>>
            ELSE IF found(keys, p.r.key)
            THEN /\ Fail("parseFiles", Errorf("duplicate entry", 0, 0, p.r.key),
                         "Error reading files")
                 /\ trace' = Append(trace, "parseFiles:err")
                 /\ UNCHANGED <<fileIdx, partIdx, resources, keys, tooMany>>
            ELSE /\ keys' = keys \cup {p.r.key}
                 /\ resources' = appendResource(resources, p.r)
                 /\ IF partIdx + 1 < Len(parts)
                    THEN /\ partIdx' = partIdx + 1
                         /\ UNCHANGED <<pc, fileIdx, tooMany, trace>>
                    ELSE IF fileIdx + 1 < nArgs
                    THEN /\ fileIdx' = fileIdx + 1
                         /\ partIdx' = 0
                         /\ pc' = "readFile"
                         /\ UNCHANGED <<tooMany, trace>>
                    ELSE /\ fileIdx' = fileIdx + 1
                         /\ partIdx' = 0
                         /\ tooMany' = (Len(resources') > maxResources)
                         /\ pc' = afterSizeCheck(Len(resources'))
                         /\ trace' = trace \o <<"parseFiles:ok", "constructImage">>
                 /\ UNCHANGED <<exitCode, err, stdout>>

(* constructImage, lines 192-198: compute tempDir, create it, register the *)
(* deferred os.RemoveAll.                                                  *)
MkdirTemp ==
  /\ pc = "constructImage"
  /\ UNCHANGED vvars
  /\ UNCHANGED built
  /\ UNCHANGED <<help, imageFlag, nArgs, fileIdx, parts, partIdx, resources, keys, tooMany,
                 image, pushes, input, seen>>
  /\ \E t \in Times :
       /\ tempDir' = <<"tekton-bundler-%d", t>>
       /\ \/ /\ Fail("constructImage", Wrap("making temp dir", Errorf("os.MkdirAll", 0, 0, NoKey)),
                     "Error constructing image")
             /\ trace' = Append(trace, "constructImage:err")
             /\ UNCHANGED <<fs, index>>
          \/ /\ fs' = fs \cup {TempDirEntry(t)}
             /\ index' = 0
             /\ pc' = "layer"
             /\ UNCHANGED <<exitCode, err, stdout, trace>>

(* what one iteration of constructImage's loop can run into                *)
LayerOutcomes == {"ok", "os.Create", "tw.WriteHeader", "tw.Write", "LayerFromFile", "AppendLayers"}

(* constructImage, lines 199-225, and main, lines 84-89: one iteration of  *)
(* the loop, or the return after the last one; every return runs the       *)
(* deferred os.RemoveAll(tempDir).                                         *)
Layer ==
  /\ pc = "layer"
  /\ UNCHANGED vvars
  /\ UNCHANGED <<help, imageFlag, nArgs, fileIdx, parts, partIdx, resources, keys, tooMany,
                 tempDir, pushes, input, seen>>
  /\ IF index = Len(resources)
     THEN /\ fs' = RemoveAll(fs, tempDir)
          /\ pc' = "publishImage"
          /\ trace' = trace \o <<"constructImage:ok", "publishImage">>
          /\ built' = Append(built, [tempDir |-> tempDir, image |-> image])
          /\ UNCHANGED <<image, index, exitCode, err, stdout>>
     ELSE \E o \in LayerOutcomes :
            LET res == resources[index + 1]
                tarname == [dir |-> tempDir, name |-> <<"resource-%d.tar", index>>]
                layer == LayerFromFile(createTarball(tarname, res, index))
                al == annotatedLayer(layer, annotationsOf(res))
            IN  IF o = "ok"
                THEN /\ fs' = fs \cup {tarname}
                     /\ image' = AppendLayers(image, al)
                     /\ index' = index + 1
                     /\ UNCHANGED <<pc, exitCode, err, stdout, trace, built>>
                ELSE /\ fs' = RemoveAll(IF o = "os.Create" THEN fs ELSE fs \cup {tarname}, tempDir)
                     /\ UNCHANGED built
                     /\ Fail("constructImage",
                             Wrap(CASE o \in {"os.Create", "tw.WriteHeader", "tw.Write"}
                                         -> "creating tarball"
                                    [] o = "LayerFromFile" -> "creating layer"
                                    [] o = "AppendLayers" -> "appending layer",
                                  Errorf(o, 0, index, res.key)),
                             "Error constructing image")
                     /\ trace' = Append(trace, "constructImage:err")
                     /\ UNCHANGED <<image, index>>

(* publishImage, lines 249-259, and main, lines 89-96                      *)
PublishImage ==
  /\ pc = "publishImage"
  /\ UNCHANGED vvars
  /\ UNCHANGED built
  /\ UNCHANGED <<help, imageFlag, nArgs, fileIdx, parts, partIdx, resources, keys, tooMany,
                 fs, tempDir, image, index, input, seen>>
  /\ pushes' = pushes + 1
  /\ \/ /\ Fail("publishImage", Wrap("pushing image", Errorf("crane.Push", 0, 0, NoKey)),
                "Error publishing image")
        /\ trace' = trace \o <<"push", "publishImage:err">>
     \/ /\ Fail("publishImage", Wrap("fetching digest", Errorf("image.Digest", 0, 0, NoKey)),
                "Error publishing image")
        /\ trace' = trace \o <<"push", "publishImage:err">>
     \/ /\ Exit(0, NilError, "ref@digest")
        /\ trace' = trace \o <<"push", "publishImage:ok">>

NextBundler == MainFlags \/ ReadFile \/ ParsePart \/ MkdirTemp \/ Layer \/ PublishImage

(* ----------------------------------------------------------------------- *)
(* constructImage called more than once on the same resources              *)
(* ----------------------------------------------------------------------- *)

(* the resources parseFiles can return for the documents of the alphabet   *)
ValidResources ==
  {parseResource(<<d>>, 1, 0).r : d \in {t \in DocTokens : parseResource(<<t>>, 1, 0).err = NilError}}

(* the lists parseFiles can return: at least one resource, no key twice    *)
ResourceLists ==
  {rs \in UNION {[1 .. n -> ValidResources] : n \in 1 .. MaxStaged} :
     \A i, j \in 1 .. Len(rs) : rs[i].key = rs[j].key => i = j}

InitRebuild ==
  /\ pc = "constructImage"
  /\ resources \in ResourceLists
  /\ help = FALSE
  /\ imageFlag = "ok"
  /\ nArgs = 1
  /\ fileIdx = 1
  /\ parts = <<>>
  /\ partIdx = 0
  /\ keys = {resources[i].key : i \in 1 .. Len(resources)}
  /\ err = NilError
  /\ tooMany = FALSE
  /\ fs = {}
  /\ tempDir = <<>>
  /\ image = emptyImage
  /\ index = 0
  /\ pushes = 0
  /\ exitCode = -1
  /\ stdout = "none"
  /\ input = <<>>
  /\ seen = <<>>
  /\ trace = <<"parseFiles", "parseFiles:ok", "constructImage">>
  /\ built = <<>>
  /\ vpc = "idle"
  /\ signer = ""
  /\ key = <<>>
  /\ imgRef = ""
  /\ verifier = "nil"
  /\ lookupErr = NoErr
  /\ sigVerifier = "nil"
  /\ handle = "none"
  /\ deferred = <<>>
  /\ backend = NotCalled
  /\ result = [verified |-> FALSE, err |-> NoErr]

(* constructImage, line 191, entered again with the same resources: its    *)
(* locals start afresh                                                     *)
Rebuild ==
  /\ pc = "publishImage"
  /\ Len(built) < Calls
  /\ UNCHANGED vvars
  /\ pc' = "constructImage"
  /\ tempDir' = <<>>
  /\ image' = emptyImage
  /\ index' = 0
  /\ trace' = Append(trace, "constructImage")
  /\ UNCHANGED <<help, imageFlag, nArgs, fileIdx, parts, partIdx, resources, keys, err, tooMany,
                 fs, pushes, exitCode, stdout, input, seen, built>>

NextRebuild == MkdirTemp \/ Layer \/ Rebuild

(* ----------------------------------------------------------------------- *)
(* The bundler given one file with about maxResources documents            *)
(* ----------------------------------------------------------------------- *)

(* the i-th document of such a file: a Task named after i                  *)
ManyDoc(i) ==
  [tok |-> "doc", apiVersion |-> SupportedAPIVersion, kind |-> "Task", name |-> ToString(i),
   body |-> "x"]

(* n documents with a separator between each two                           *)
ManyFile(n) == [k \in 1 .. 2 * n - 1 |-> IF k % 2 = 1 THEN ManyDoc((k + 1) \div 2) ELSE Sep]

(* main has parsed its flags and parseFiles has read and split its one     *)
(* file                                                                    *)
InitMany ==
  /\ pc = "parsePart"
  /\ input \in {<<ManyFile(n)>> : n \in maxResources - 1 .. maxResources + MaxOver}
  /\ parts = Split(input[1])
  /\ seen = parts
  /\ help = FALSE
  /\ imageFlag = "ok"
  /\ nArgs = 1
  /\ fileIdx = 0
  /\ partIdx = 0
  /\ resources = <<>>
  /\ keys = {}
  /\ err = NilError
  /\ tooMany = FALSE
  /\ fs = {}
  /\ tempDir = <<>>
  /\ image = emptyImage
  /\ index = 0
  /\ pushes = 0
  /\ exitCode = -1
  /\ stdout = "none"
  /\ trace = <<"parseFiles">>
  /\ built = <<>>
  /\ vpc = "idle"
  /\ signer = ""
  /\ key = <<>>
  /\ imgRef = ""
  /\ verifier = "nil"
  /\ lookupErr = NoErr
  /\ sigVerifier = "nil"
  /\ handle = "none"
  /\ deferred = <<>>
  /\ backend = NotCalled
  /\ result = [verified |-> FALSE, err |-> NoErr]

NextMany == ParsePart \/ MkdirTemp \/ Layer \/ PublishImage

(* ----------------------------------------------------------------------- *)
(* The earlier constructImage (src/unnamed/part_004): the resource text is *)
(* written to "resource-<i>.yaml" and appended with crane.Append.          *)
(* ----------------------------------------------------------------------- *)

(* the flat resource of that version                                       *)
resource004(name, kind, apiVersion, content) ==
  [name |-> name, kind |-> kind, apiVersion |-> apiVersion, content |-> content]

(* what its parseFiles can return: any sequence of documents that pass     *)
(* parseResource (it keeps no key set)                                     *)
Resources004 ==
  LET valid == {d \in DocTokens : parseResource(<<d>>, 1, 0).err = NilError}
      rs == {resource004(d.name, d.kind, d.apiVersion, <<d>>) : d \in valid}
  IN  UNION {[1 .. n -> rs] : n \in 0 .. MaxStaged}

annotations004(res) ==
  [k \in {"dev.tekton.image.name", "dev.tekton.image.kind", "dev.tekton.image.apiVersion"} |->
     CASE k = "dev.tekton.image.name" -> res.name
       [] k = "dev.tekton.image.kind" -> res.kind
       [] k = "dev.tekton.image.apiVersion" -> res.apiVersion]

(* fname := fmt.Sprintf("resource-%d.yaml", i): a path relative to the     *)
(* working directory                                                       *)
fname004(i) == [dir |-> <<"cwd">>, name |-> <<"resource-%d.yaml", i>>]

Init004 ==
  /\ pc = "constructImage"
  /\ resources \in Resources004
  /\ help = FALSE
  /\ imageFlag = "ok"
  /\ nArgs = 1
  /\ fileIdx = 1
  /\ parts = <<>>
  /\ partIdx = 0
  /\ keys = {}
  /\ err = NilError
  /\ tooMany = FALSE
  /\ fs = {}
  /\ tempDir = <<>>
  /\ image = [layers |-> <<>>, annotations |-> <<>>]
  /\ index = 0
  /\ pushes = 0
  /\ exitCode = -1
  /\ stdout = "none"
  /\ input = <<>>
  /\ seen = <<>>
  /\ trace = <<"parseFiles", "parseFiles:ok", "constructImage">>
  /\ built = <<>>
  /\ vpc = "idle"
  /\ signer = ""
  /\ key = <<>>
  /\ imgRef = ""
  /\ verifier = "nil"
  /\ lookupErr = NoErr
  /\ sigVerifier = "nil"
  /\ handle = "none"
  /\ deferred = <<>>
  /\ backend = NotCalled
  /\ result = [verified |-> FALSE, err |-> NoErr]

(* part_004 constructImage, lines 185-190: tempDir, MkdirAll, the defer    *)
MkdirTemp004 ==
  /\ pc = "constructImage"
  /\ UNCHANGED vvars
  /\ UNCHANGED built
  /\ UNCHANGED <<help, imageFlag, nArgs, fileIdx, parts, partIdx, resources, keys, tooMany,
                 image, pushes, input, seen>>
  /\ \E t \in Times :
       /\ tempDir' = <<"tekton-bundler-%d", t>>
       /\ \/ /\ Fail("constructImage", Wrap("making temp dir", Errorf("os.MkdirAll", 0, 0, NoKey)),
                     "Error constructing image")
             /\ trace' = Append(trace, "constructImage:err")
             /\ UNCHANGED <<fs, index>>
          \/ /\ fs' = fs \cup {TempDirEntry(t)}
             /\ index' = 0
             /\ pc' = "layer"
             /\ UNCHANGED <<exitCode, err, stdout, trace>>

LayerOutcomes004 == {"ok", "os.WriteFile:open", "os.WriteFile:write", "crane.Append"}

(* part_004 constructImage, lines 191-210: one iteration of the loop, or   *)
(* the return after the last one; every return runs the deferred           *)
(* os.RemoveAll(tempDir).                                                  *)
Layer004 ==
  /\ pc = "layer"
  /\ UNCHANGED vvars
  /\ UNCHANGED built
  /\ UNCHANGED <<help, imageFlag, nArgs, fileIdx, parts, partIdx, resources, keys, tooMany,
                 tempDir, pushes, input, seen>>
  /\ IF index = Len(resources)
     THEN /\ fs' = RemoveAll(fs, tempDir)
          /\ pc' = "publishImage"
          /\ trace' = trace \o <<"constructImage:ok", "publishImage">>
          /\ UNCHANGED <<image, index, exitCode, err, stdout>>
     ELSE \E o \in LayerOutcomes004 :
            LET res == resources[index + 1]
                written == IF o = "os.WriteFile:open" THEN fs ELSE fs \cup {fname004(index)}
            IN  IF o = "ok"
                THEN /\ fs' = written
                     /\ image' = [layers |-> Append(image.layers, res.content),
                                  annotations |-> annotations004(res)]
                     /\ index' = index + 1
                     /\ UNCHANGED <<pc, exitCode, err, stdout, trace>>
                ELSE /\ fs' = RemoveAll(written, tempDir)
                     /\ Fail("constructImage",
                             Wrap(IF o = "crane.Append" THEN "appending layer" ELSE "writing file",
                                  Errorf(o, 0, index, NoKey)),
                             "Error constructing image")
                     /\ trace' = Append(trace, "constructImage:err")
                     /\ UNCHANGED <<image, index>>

Next004 == MkdirTemp004 \/ Layer004

(* ----------------------------------------------------------------------- *)
(* Package oci: lookupVerifier and cosignVerifier.Verify                   *)
(* ----------------------------------------------------------------------- *)

Signers == {"cosign", "Cosign", "unknown", ""}

Refs == {"gcr.io/example/a", "gcr.io/example/b"}

(* a key string, as the sequence of the pieces the code tells apart        *)
PEMHeader == "-----BEGIN PUBLIC KEY-----"

KeyPieces == {" ", PEMHeader, "pkcs11:", "data"}

KeyStrings == UNION {[1 .. n -> KeyPieces] : n \in 0 .. MaxKeyLen}

RECURSIVE TrimLeft(_)
TrimLeft(k) == IF k # <<>> /\ Head(k) = " " THEN TrimLeft(Tail(k)) ELSE k

RECURSIVE TrimRight(_)
TrimRight(k) ==
  IF k # <<>> /\ k[Len(k)] = " " THEN TrimRight(SubSeq(k, 1, Len(k) - 1)) ELSE k

(* strings.TrimSpace                                                       *)
TrimSpace(k) == TrimRight(TrimLeft(k))

(* strings.HasPrefix(k, "-----BEGIN PUBLIC KEY-----")                      *)
HasPrefix(k, prefix) == k # <<>> /\ Head(k) = prefix

(* lookupVerifier with a comparison that ignores the case                  *)
lookupVerifier_anyCase(s) ==
  IF s \in {"cosign", "Cosign"}
  THEN [verifier |-> "cosignVerifier", err |-> NoErr]
  ELSE [verifier |-> "nil", err |-> VErrorf("unknown signer %q", s)]

(* lookupVerifier: [verifier, err]                                         *)
lookupVerifier(s) ==
  IF s = "cosign"
  THEN [verifier |-> "cosignVerifier", err |-> NoErr]
  ELSE [verifier |-> "nil", err |-> VErrorf("unknown signer %q", s)]

(* Verify's tail with the not-verified case returning no error             *)
verifyResult_silent(b, ref) ==
  IF b.err # NoErr THEN [verified |-> FALSE, err |-> b.err]
  ELSE IF ~b.verified THEN [verified |-> FALSE, err |-> NoErr]
  ELSE [verified |-> TRUE, err |-> NoErr]

(* Verify's tail with the not-verified message naming no reference         *)
verifyResult_noRef(b, ref) ==
  IF b.err # NoErr THEN [verified |-> FALSE, err |-> b.err]
  ELSE IF ~b.verified
  THEN [verified |-> FALSE, err |-> VErrorf("signature on %s was not verified", "")]
  ELSE [verified |-> TRUE, err |-> NoErr]

(* Verify, lines 57-67: what is returned for the backend's answer          *)
verifyResult(b, ref) ==
  IF b.err # NoErr THEN [verified |-> FALSE, err |-> b.err]
  ELSE IF ~b.verified
  THEN [verified |-> FALSE, err |-> VErrorf("signature on %s was not verified", ref)]
  ELSE [verified |-> TRUE, err |-> NoErr]

(* `var pubKey signature.Verifier`, line 29: never assigned                *)
pubKey == "nil"

(* the type assertion of pubKey to a pkcs11key.Key, line 45                *)
isPkcs11Key(v) == v = "pkcs11key.Key"

InitVerify ==
  /\ vpc = "lookup"
  /\ signer \in Signers
  /\ key \in KeyStrings
  /\ imgRef \in Refs
  /\ verifier = "nil"
  /\ lookupErr = NoErr
  /\ sigVerifier = "nil"
  /\ handle = "none"
  /\ deferred = <<>>
  /\ backend = NotCalled
  /\ result = [verified |-> FALSE, err |-> NoErr]
  /\ pc = "idle"
  /\ help = FALSE
  /\ imageFlag = ""
  /\ nArgs = 0
  /\ fileIdx = 0
  /\ parts = <<>>
  /\ partIdx = 0
  /\ resources = <<>>
  /\ keys = {}
  /\ err = NilError
  /\ tooMany = FALSE
  /\ fs = {}
  /\ tempDir = <<>>
  /\ image = emptyImage
  /\ index = 0
  /\ pushes = 0
  /\ exitCode = -1
  /\ stdout = "none"
  /\ input = <<>>
  /\ seen = <<>>
  /\ trace = <<>>
  /\ built = <<>>

(* a client looks the verifier up and, having got one, calls Verify on it  *)
LookupVerifier ==
  /\ vpc = "lookup"
  /\ UNCHANGED bvars
  /\ verifier' = lookupVerifier(signer).verifier
  /\ lookupErr' = lookupVerifier(signer).err
  /\ vpc' = IF lookupVerifier(signer).err = NoErr THEN "Verify" ELSE "done"
  /\ UNCHANGED <<signer, key, imgRef, sigVerifier, handle, deferred, backend, result>>

Return(verified, e) ==
  /\ result' = [verified |-> verified, err |-> e]
  /\ vpc' = "done"

(* Verify, lines 22-49: the options and the key                            *)
VerifyLoadKey ==
  /\ vpc = "Verify"
  /\ UNCHANGED bvars
  /\ UNCHANGED <<signer, key, imgRef, verifier, lookupErr, backend>>
  /\ IF key = <<>>
     THEN /\ vpc' = "VerifyImageSignatures"
          /\ UNCHANGED <<sigVerifier, handle, deferred, result>>
     ELSE IF HasPrefix(TrimSpace(key), PEMHeader)
     THEN \* `ecdsa, err :=` declares a new err for this block: an error of
          \* LoadECDSAVerifier is stored in it and lost at the end of the block
          \/ /\ Return(FALSE, VWrap("converting pem to ecdsa", VErrorf("PemToECDSAKey", "")))
             /\ UNCHANGED <<sigVerifier, handle, deferred>>
          \/ /\ \E loaded \in {"ECDSAVerifier", "nil"} : sigVerifier' = loaded
             /\ deferred' = IF isPkcs11Key(pubKey) THEN <<"pkcs11Key.Close">> ELSE <<>>
             /\ vpc' = "VerifyImageSignatures"
             /\ UNCHANGED <<handle, result>>
     ELSE \/ /\ Return(FALSE, VWrap("loading key", VErrorf("PublicKeyFromKeyRef", "")))
             /\ UNCHANGED <<sigVerifier, handle, deferred>>
          \/ /\ \E loaded \in {"pkcs11key.Key", "Verifier"} :
                  /\ sigVerifier' = loaded
                  /\ handle' = IF loaded = "pkcs11key.Key" THEN "open" ELSE handle
             /\ deferred' = IF isPkcs11Key(pubKey) THEN <<"pkcs11Key.Close">> ELSE <<>>
             /\ vpc' = "VerifyImageSignatures"
             /\ UNCHANGED result

(* Verify, lines 57-67: the backend is asked, the result is returned and   *)
(* the deferred calls run                                                  *)
VerifySignatures ==
  /\ vpc = "VerifyImageSignatures"
  /\ UNCHANGED bvars
  /\ \E b \in BackendOutcomes :
       /\ backend' = b
       /\ Return(verifyResult(b, imgRef).verified, verifyResult(b, imgRef).err)
  /\ handle' = IF deferred # <<>> /\ handle = "open" THEN "closed" ELSE handle
  /\ deferred' = <<>>
  /\ UNCHANGED <<signer, key, imgRef, verifier, lookupErr, sigVerifier>>

NextVerify == LookupVerifier \/ VerifyLoadKey \/ VerifySignatures

(* ----------------------------- specifications -------------------------- *)
Spec == InitBundler /\ [][NextBundler]_vars

Spec004 == Init004 /\ [][Next004]_vars

SpecVerify == InitVerify /\ [][NextVerify]_vars

SpecRebuild == InitRebuild /\ [][NextRebuild]_vars

SpecMany == InitMany /\ [][NextMany]_vars

(* ======================================================================= *)
(* Properties of the bundler                                               *)
(* ======================================================================= *)

(* the part is one well-formed document                                    *)
IsDoc(part) == Len(part) = 1 /\ part[1].tok = "doc"

(* the part passes every envelope check                                    *)
Passes(part) ==
  /\ IsDoc(part)
  /\ part[1].apiVersion = SupportedAPIVersion
  /\ part[1].kind \in {"Task", "Pipeline"}
  /\ part[1].name # ""

KeyOf(part) == [apiVersion |-> part[1].apiVersion, kind |-> part[1].kind, name |-> part[1].name]

(* the parts that repeat the key of an earlier part                        *)
Repeating(ps) ==
  LET ok == {i \in 1 .. Len(ps) : Passes(ps[i])}
  IN  {j \in ok : \E i \in ok : i < j /\ KeyOf(ps[i]) = KeyOf(ps[j])}

(* the parts that cannot be admitted                                       *)
Failing(ps) == {j \in 1 .. Len(ps) : ~Passes(ps[j])} \cup Repeating(ps)

(* the first part that cannot be admitted, if there is one                 *)
FirstFailing(ps) ==
  LET failing == Failing(ps)
  IN  {j \in failing : \A i \in failing : j <= i}

Occurs(ev) == \E i \in 1 .. Len(trace) : trace[i] = ev

Before(ev1, ev2) ==
  \A i \in 1 .. Len(trace) : trace[i] = ev2 => \E j \in 1 .. i - 1 : trace[j] = ev1

ParseFailed == pc = "exit" /\ trace # <<>> /\ trace[Len(trace)] = "parseFiles:err"

(* C1, as stated: whenever the input holds two documents with the same     *)
(* (apiVersion, kind, name), the run ends with the duplicate-entry error.  *)
C1_DuplicateAlwaysReported ==
  (pc = "exit" /\ Repeating(seen) # {}) => err.msg = <<"duplicate entry">>

(* C1, amended: the key set never admits a key twice (resources and keys   *)
(* stay in step, pairwise distinct); an input holding two admissible       *)
(* documents with the same key makes parseFiles fail, so that neither      *)
(* constructImage nor the push is ever reached; and the error is the       *)
(* duplicate-entry error for that key exactly when the repeated document   *)
(* is the first part that cannot be admitted.                              *)
C1_NoDuplicateAdmitted ==
  LET ps == seen
      rep == Repeating(ps)
  IN  /\ \A i, j \in 1 .. Len(resources) : resources[i].key = resources[j].key => i = j
      /\ keys = {resources[i].key : i \in 1 .. Len(resources)}
      /\ rep # {} =>
           /\ ~Occurs("parseFiles:ok") /\ ~Occurs("constructImage") /\ ~Occurs("push")
           /\ pushes = 0 /\ image = emptyImage /\ fs = {}
           /\ pc = "exit" => ParseFailed /\ exitCode = 1
      /\ (pc = "exit" /\ err.msg # <<"reading">>) =>
           \A j \in FirstFailing(ps) :
              IF j \in rep
              THEN err = Errorf("duplicate entry", 0, 0, KeyOf(ps[j]))
              ELSE err.msg # <<"duplicate entry">>

(* a duplicate found in the second file, with different content            *)
C1_Witness ==
  /\ pc = "exit" /\ err.msg = <<"duplicate entry">>
  /\ Len(input) = 2 /\ Len(resources) = 2
  /\ \E i \in 1 .. 2 : resources[i].key = err.key /\ resources[i].content # parts[partIdx + 1]

(* C2: the resources are the parts read, in file order and then in-file    *)
(* order, each with its own text and key; when parseFiles has returned     *)
(* without error none is missing.                                          *)
C2_ResourceOrder ==
  LET ps == seen
  IN  /\ Len(resources) <= Len(ps)
      /\ \A i \in 1 .. Len(resources) :
           /\ resources[i].content = ps[i]
           /\ Passes(ps[i]) /\ resources[i].key = KeyOf(ps[i])
      /\ Occurs("parseFiles:ok") => Len(resources) = Len(ps)

C2_Witness ==
  /\ Occurs("parseFiles:ok")
  /\ Len(input) = 2 /\ Len(Split(input[1])) = 2 /\ Len(resources) = 3

(* C3: when constructImage has returned without error, the image is the    *)
(* empty image plus one layer per resource, in the order of the resources, *)
(* and the descriptor of layer i carries the three annotations with the    *)
(* apiVersion, kind and name of resource i.                                *)
C3_LayersAnnotated ==
  Occurs("constructImage:ok") =>
    /\ Len(image) = Len(resources)
    /\ \A i \in 1 .. Len(image) :
         /\ DOMAIN image[i].descriptor.Annotations =
              {"dev.tekton.image.apiVersion", "dev.tekton.image.kind", "dev.tekton.image.name"}
         /\ image[i].descriptor.Annotations["dev.tekton.image.apiVersion"] = resources[i].key.apiVersion
         /\ image[i].descriptor.Annotations["dev.tekton.image.kind"] = resources[i].key.kind
         /\ image[i].descriptor.Annotations["dev.tekton.image.name"] = resources[i].key.name
         /\ image[i].layer.layer.content = resources[i].content

C3_Witness ==
  /\ Occurs("constructImage:ok")
  /\ Len(image) = 3
  /\ image[1].descriptor.Annotations["dev.tekton.image.kind"] = "Task"
  /\ image[2].descriptor.Annotations["dev.tekton.image.kind"] = "Pipeline"

C8_UnsupportedKindAlways ==
  (pc = "exit" /\ \E j \in 1 .. Len(seen) :
       IsDoc(seen[j]) /\ seen[j][1].kind \notin {"Task", "Pipeline"})
    => err.msg = <<"parsing resource", "unsupported Kind">>

(* C8, amended: an input holding a document whose kind is neither Task nor *)
(* Pipeline makes extraction fail; when that document is the first part    *)
(* that cannot be admitted, the error is the unsupported-kind error if its *)
(* apiVersion is the supported one (whatever its name) and the             *)
(* unsupported-apiVersion error otherwise; and no resource of another kind *)
(* than Task or Pipeline is ever among the resources.                      *)
C8_UnsupportedKind ==
  LET ps == seen
      other == {j \in 1 .. Len(ps) : IsDoc(ps[j]) /\ ps[j][1].kind \notin {"Task", "Pipeline"}}
  IN  /\ \A i \in 1 .. Len(resources) : resources[i].key.kind \in {"Task", "Pipeline"}
      /\ other # {} =>
           /\ ~Occurs("parseFiles:ok") /\ ~Occurs("constructImage")
           /\ pc = "exit" => ParseFailed /\ exitCode = 1
      /\ (pc = "exit" /\ other # {} /\ err.msg # <<"reading">>) =>
           \A j \in FirstFailing(ps) \cap other :
              err.msg = <<"parsing resource",
                          IF ps[j][1].apiVersion = SupportedAPIVersion
                          THEN "unsupported Kind"
                          ELSE "only tekton.dev/v1beta1 supported by this tool">>

(* the unsupported kind is reported for a document without a name, in the  *)
(* second part of a file                                                   *)
C8_Witness ==
  /\ pc = "exit" /\ err.msg = <<"parsing resource", "unsupported Kind">>
  /\ partIdx = 1 /\ parts[2][1].name = "" /\ Len(resources) = 1

(* C9: when constructImage has returned (to main, or the run has ended on  *)
(* its error), no staging file or directory it created is left on disk.    *)
(* It holds of the constructImage of main.go (Spec) and fails for the one  *)
(* of part_004 (Spec004), whose files are written outside tempDir.         *)
C9_StagingRemoved == pc \in {"publishImage", "exit"} => fs = {}

(* the fields the envelope of a part has: those of its document, or empty  *)
(* ones for an empty part                                                  *)
Envelope(part) ==
  IF part = <<>> THEN [apiVersion |-> "", kind |-> "", name |-> ""] ELSE KeyOf(part)

(* C12: when parseFiles fails on a part, that part is the first part of    *)
(* the input that cannot be admitted, every part before it has become a    *)
(* resource, no later file has been read, and the error is that of the     *)
(* first check the part fails, in the order parse, apiVersion, kind, name, *)
(* duplicate key: the apiVersion error whatever the kind and name, the     *)
(* kind error whatever the name, the name error only with a supported      *)
(* apiVersion and kind, the duplicate error only for a part that passes    *)
(* all of these; the envelope errors name the file and the index of the    *)
(* part.                                                                   *)
C12_FirstFailingCheck ==
  (ParseFailed /\ err.msg # <<"reading">>) =>
    LET j == Len(resources) + 1
        part == seen[j]
        e == Envelope(part)
        envelopeError(m) ==
          [msg |-> <<"parsing resource", m>>, file |-> Len(input), index |-> partIdx, key |-> NoKey]
    IN  /\ j <= Len(seen)
        /\ part = parts[partIdx + 1]
        /\ FirstFailing(seen) = {j}
        /\ Len(input) = fileIdx + 1
        /\ IF part # <<>> /\ part[1].tok = "malformed"
           THEN err = envelopeError("unmarshalling yaml")
           ELSE IF e.apiVersion # SupportedAPIVersion
           THEN err = envelopeError("only tekton.dev/v1beta1 supported by this tool")
           ELSE IF e.kind \notin {"Task", "Pipeline"}
           THEN err = envelopeError("unsupported Kind")
           ELSE IF e.name = ""
           THEN err = envelopeError("name is required")
           ELSE /\ err = Errorf("duplicate entry", 0, 0, e)
                /\ \E i \in 1 .. j - 1 : resources[i].key = e

(* the apiVersion error for a document that also has an unsupported kind   *)
(* and no name, with a later part and a later file left unexamined         *)
C12_Witness ==
  /\ ParseFailed
  /\ err.msg = <<"parsing resource", "only tekton.dev/v1beta1 supported by this tool">>
  /\ parts[partIdx + 1] # <<>>
  /\ parts[partIdx + 1][1].kind = "ClusterTask" /\ parts[partIdx + 1][1].name = ""
  /\ partIdx + 1 < Len(parts)
  /\ Len(input) < nArgs

(* C13: when parseFiles has returned more than maxResources resources the  *)
(* excess is reported and the run goes on as it does otherwise:            *)
(* constructImage is entered with all the resources, the image it returns  *)
(* has one layer for each of them, publishImage is entered after it, and   *)
(* the run ends only with the outcome of one of these two stages, with     *)
(* exit code 0 when the push succeeds.                                     *)
C13_TooManyGoesOn ==
  LET last == IF trace = <<>> THEN "" ELSE trace[Len(trace)]
  IN  /\ Occurs("parseFiles:ok") =>
           /\ tooMany <=> Len(resources) > maxResources
           /\ Len(resources) = Len(seen)
           /\ Occurs("constructImage")
           /\ pc \in {"constructImage", "layer", "publishImage", "exit"}
           /\ pc = "exit" => last \in {"constructImage:err", "publishImage:err", "publishImage:ok"}
      /\ Occurs("constructImage:ok") =>
           /\ Len(image) = Len(resources)
           /\ \A i \in 1 .. Len(image) : image[i].layer.layer.content = resources[i].content
           /\ Occurs("publishImage")
      /\ (pc = "exit" /\ last = "publishImage:ok") => exitCode = 0 /\ pushes = 1

(* a run with two resources more than maxResources that ended successfully *)
C13_Witness ==
  /\ pc = "exit" /\ exitCode = 0 /\ stdout = "ref@digest"
  /\ tooMany
  /\ Len(resources) = maxResources + 2 /\ Len(image) = maxResources + 2

(* the file is empty, begins or ends with the separator, or has two        *)
(* separators in a row                                                     *)
HasEmptyPart(c) ==
  \/ c = <<>>
  \/ c[1] = Sep
  \/ c[Len(c)] = Sep
  \/ \E k \in 1 .. Len(c) - 1 : c[k] = Sep /\ c[k + 1] = Sep

(* C14, as stated: a run that has read a file with an empty part ends with *)
(* the unsupported-apiVersion error.                                       *)
C14_EmptyPartAlwaysAPIVersion ==
  (pc = "exit" /\ \E f \in 1 .. Len(input) : HasEmptyPart(input[f]))
    => err.msg = <<"parsing resource", "only tekton.dev/v1beta1 supported by this tool">>

(* C14, amended: a file that is empty, begins or ends with the separator   *)
(* or has two separators in a row is split into parts of which one is      *)
(* empty, and the other way round; having read such a file parseFiles      *)
(* fails, so that constructImage is never entered; the error is the        *)
(* unsupported-apiVersion error naming the file and index of the empty     *)
(* part when that part is the first part that cannot be admitted; and when *)
(* parseFiles has returned without error, every file has given at least    *)
(* one resource and no resource has an empty content.                      *)
C14_EmptyPartRejected ==
  LET empty == {j \in 1 .. Len(seen) : seen[j] = <<>>}
  IN  /\ (empty # {}) <=> (\E f \in 1 .. Len(input) : HasEmptyPart(input[f]))
      /\ \A i \in 1 .. Len(resources) : resources[i].content # <<>>
      /\ empty # {} =>
           /\ ~Occurs("parseFiles:ok") /\ ~Occurs("constructImage")
           /\ pc = "exit" => ParseFailed /\ exitCode = 1
      /\ (pc = "exit" /\ empty # {}) =>
           \A j \in FirstFailing(seen) \cap empty :
              err = [msg |-> <<"parsing resource", "only tekton.dev/v1beta1 supported by this tool">>,
                     file |-> Len(input), index |-> partIdx, key |-> NoKey]
      /\ Occurs("parseFiles:ok") =>
           /\ Len(input) = nArgs
           /\ \A f \in 1 .. Len(input) : Len(Split(input[f])) >= 1 /\ ~HasEmptyPart(input[f])
           /\ Len(resources) = Len(seen)
           /\ Len(resources) >= nArgs

(* the second file ends with the separator: its last part is empty and is  *)
(* reported after the document before it has been admitted                 *)
C14_Witness ==
  /\ ParseFailed
  /\ err.msg = <<"parsing resource", "only tekton.dev/v1beta1 supported by this tool">>
  /\ Len(input) = 2 /\ input[2] # <<>> /\ input[2][Len(input[2])] = Sep
  /\ partIdx = 1 /\ Len(parts) = 2 /\ parts[2] = <<>> /\ Len(resources) = 2

(* C11: every call of constructImage on the same list of resources returns *)
(* an image with the same digest, whatever the time its staging directory  *)
(* is named after; the digest is that of the layers made of the entry      *)
(* name, mode, size and content of each resource in order, with the        *)
(* annotations of its key.                                                 *)
C11_SameDigest ==
  /\ \A i, j \in 1 .. Len(built) : Digest(built[i].image) = Digest(built[j].image)
  /\ \A i \in 1 .. Len(built) :
       /\ Len(Digest(built[i].image)) = Len(resources)
       /\ \A n \in 1 .. Len(resources) :
            /\ Digest(built[i].image)[n].Annotations = annotationsOf(resources[n])
            /\ Digest(built[i].image)[n].Digest =
                 [Name |-> <<"resource-%d.yaml", n - 1>>, Mode |-> "0600",
                  Size |-> Len(resources[n].content), content |-> resources[n].content]

(* two calls have returned, their staging directories named differently    *)
C11_Witness ==
  /\ Len(built) = 2 /\ Len(resources) = 2
  /\ built[1].tempDir # built[2].tempDir
  /\ Digest(built[1].image) = Digest(built[2].image)

(* ======================================================================= *)
(* Properties of package oci                                               *)
(* ======================================================================= *)

VerifyReturned == vpc = "done" /\ lookupErr = NoErr

NotVerifiedError(ref) == [msg |-> <<"signature on %s was not verified">>, ref |-> ref]

(* C5: Verify returns true only with a nil error and a nil error only with *)
(* true.                                                                   *)
C5_VerifiedIffNilError ==
  VerifyReturned => (result.verified <=> result.err = NoErr)

C5_Witness ==
  /\ VerifyReturned /\ result.verified /\ result.err = NoErr
  /\ HasPrefix(TrimSpace(key), PEMHeader) /\ key[1] = " "

C7_LookupVerifier ==
  vpc # "lookup" =>
    IF signer = "cosign"
    THEN verifier # "nil" /\ lookupErr = NoErr
    ELSE verifier = "nil" /\ lookupErr = [msg |-> <<"unknown signer %q">>, ref |-> signer]

C7_Witness == vpc = "done" /\ signer = "Cosign" /\ verifier = "nil" /\ lookupErr.ref = "Cosign"

(* C10: a PKCS#11 key handle obtained while loading the key has been       *)
(* closed when Verify returns.                                             *)
C10_HandleReleased == (VerifyReturned /\ handle # "none") => handle = "closed"

====
